---------------------------- MODULE Spec2Model ----------------------------
(***************************************************************************)
(* A model of the race-radar feed updater: tools/normalize.py,             *)
(* tools/classify.py and tools/update_feed.py.                             *)
(*                                                                         *)
(* Strings that the code inspects are modelled by what the code reads in   *)
(* them:                                                                   *)
(*   - a URL is a record (scheme, host, path, query); the path is the      *)
(*     sequence of its pieces ("/", ";", a name) and the query the         *)
(*     sequence of its parameters as written;                              *)
(*   - a title, a summary or a page text is a sequence of tokens, each     *)
(*     token standing for a literal substring (see Texts below);           *)
(*   - a date string is 0 when empty or absent, BadDate when it does not   *)
(*     parse, and otherwise the number of its day since 1970-01-01;        *)
(*   - a timestamp (createdAt, updatedAt) is 0 when absent and otherwise   *)
(*     the instant it was taken, counted as 2*day + (0 at midnight, 1      *)
(*     later in the day);                                                  *)
(*   - sha1(...)[:16] is taken to be injective: an id is the canonical     *)
(*     URL it hashes.                                                      *)
(***************************************************************************)
EXTENDS Integers, Sequences, FiniteSets, TLC

VARIABLES
    feed,        \* feed.json: [items, updatedAt], the persisted catalog
    today,       \* the clock: the current day ...
    tod,         \* ... and 0 at exactly 00:00:00, 1 later in the day
    pc,          \* main()'s position
    args,        \* the command line: [dry_run, ci]
    items,       \* main()'s feed["items"], then merged_items, then final_items
    all_new,     \* main()'s all_new
    added,       \* merge_items' second result
    stats,       \* main()'s stats, per source name
    si,          \* the index in cfg["sources"] of the next source
    exit_code,   \* the process's exit status (-1 while it runs)
    detail_reqs, \* enrich_items_with_details: the detail requests it sent
    runs,        \* how many runs have started
    hist,        \* history: per canonical URL, the earliest createdAt seen
    call         \* the last library call made on its own: [fn, arg, ret]

vars == <<feed, today, tod, pc, args, items, all_new, added, stats, si,
          exit_code, detail_reqs, runs, hist, call>>

----------------------------------------------------------------------------
(* Sequences                                                               *)

Range(s) == {s[i] : i \in 1..Len(s)}

RECURSIVE SumSeq(_)
SumSeq(s) == IF s = <<>> THEN 0 ELSE Head(s) + SumSeq(Tail(s))

SeqsUpTo(S, n) == UNION {[1..k -> S] : k \in 0..n}

----------------------------------------------------------------------------
(* URLs: urllib.parse as canonicalize_url uses it                          *)

NoUrl == [scheme |-> "", host |-> "", path |-> <<>>, query |-> <<>>]

\* urlparse's _splitparams on a path that holds a ";": the parameters start
\* at the first ";" of the last segment.
LastSlash(path) ==
    IF \E i \in 1..Len(path) : path[i] = "/"
    THEN CHOOSE i \in 1..Len(path) :
            path[i] = "/" /\ \A j \in (i+1)..Len(path) : path[j] # "/"
    ELSE 1

splitparams(path) ==
    LET from == LastSlash(path)
        semis == {i \in from..Len(path) : path[i] = ";"}
    IN  IF semis = {} THEN path
        ELSE SubSeq(path, 1, (CHOOSE i \in semis : \A j \in semis : i <= j) - 1)

RECURSIVE rstrip_slash(_)
rstrip_slash(path) ==
    IF path # <<>> /\ path[Len(path)] = "/"
    THEN rstrip_slash(SubSeq(path, 1, Len(path) - 1))
    ELSE path

\* k.lower().startswith("utm_") or k.lower() in {"spm"}
IsTrackingKey(k) == k \in {"utm_source", "UTM_Medium", "spm"}

\* parse_qsl(keep_blank_values=True) then urlencode: "k" and "k=" both come
\* back as "k=".
requery(query) ==
    LET keep(p) == ~IsTrackingKey(p.k)
        kept == SelectSeq(query, keep)
    IN  [i \in 1..Len(kept) |-> [k |-> kept[i].k, v |-> kept[i].v, eq |-> TRUE]]

canonicalize_url(url) ==
    IF url = NoUrl THEN NoUrl
    ELSE [scheme |-> "https",
          host   |-> url.host,
          path   |-> rstrip_slash(splitparams(url.path)),
          query  |-> requery(url.query)]

id_from_url(url) == canonicalize_url(url)

NoId == NoUrl

----------------------------------------------------------------------------
(* Dates and the clock                                                     *)

BadDate == -1

Parses(d) == d > 0

\* datetime.strptime(d, "%Y-%m-%d") < / > datetime.now(), d a parsed date
DtBeforeNow(d, day, t) == d < day \/ (d = day /\ t > 0)
DtAfterNow(d, day, t)  == d > day

\* (datetime.now() - strptime(d)).days and (strptime(d) - datetime.now()).days:
\* timedelta.days is the floor
DaysSince(d, day, t) == day - d
DaysUntil(d, day, t) == IF t = 0 THEN d - day ELSE d - day - 1

\* now_iso(): the instant, comparable as the ISO strings are
Stamp(day, t) == 2 * day + t


----------------------------------------------------------------------------
(* Texts: a title, a summary, a page text is a sequence of tokens          *)
(*                                                                         *)
(*   w          stands for                                                 *)
(*   "sp"       " "  (white space)                                         *)
(*   "x"        "某"  (one character no rule reads)                        *)
(*   "icp"      "京ICP备12345678号"                                        *)
(*   "date"     a date such as "2025年3月21日"; d is its day               *)
(*   "to"       "至"                                                       *)
(*   "daysleft" "距离报名截止还有d天"                                      *)
(*   "notice"   "通知"                                                     *)
(*   "contest"  "竞赛"                                                     *)
(*   "acm"      "ACM程序设计"                                              *)
(*   "algo"     "算法"                                                     *)
(*   "modeling" "数学建模"                                                 *)
(*   "kaggle"   "Kaggle"                                                   *)
(*   "startup"  "创业"                                                     *)
(*   "national" "全国大学生"                                               *)
(*   "money"    an amount with its unit, such as "5000元"; d is the        *)
(*              amount in RMB that parse_val gives                         *)
(*   "poolkw"   "总奖金"                                                   *)
(*   "prizepool" "Prize Pool"                                              *)
(*   "maxkw"    "一等奖"                                                   *)
(* No keyword of the code spans two tokens.                                *)

Tok(w) == [w |-> w, d |-> 0]
DateTok(d) == [w |-> "date", d |-> d]
DaysLeftTok(n) == [w |-> "daysleft", d |-> n]
MoneyTok(n) == [w |-> "money", d |-> n]

\* The amount written as the digits n and a unit u:
\*   "wanyuan" n万元, "sp_wanyuan" n 万元, "wan" n万, "yuan" n元,
\*   "usd" nUSD, "usd_prefix" $n.
\* money_pattern's number run is greedy over digits and 万: in "n万元" it
\* takes "n万" and leaves "元" as the unit.
money_match(n, u) ==
    IF u = "wanyuan" THEN [digits |-> n, wan |-> TRUE, unit |-> "yuan"]
    ELSE IF u = "sp_wanyuan" THEN [digits |-> n, wan |-> FALSE, unit |-> "wanyuan"]
    ELSE [digits |-> n, wan |-> FALSE, unit |-> u]

\* _parse_number: the first run of digits, when the string holds a digit
parse_number(m) == m.digits

\* EXCHANGE_USD_TO_RMB = 7.2, in tenths
EXCHANGE_USD_TO_RMB_TENTHS == 72

\* parse_val: int(val * 10000), int(val * EXCHANGE_USD_TO_RMB), int(val)
parse_val(m) ==
    IF m.unit \in {"wanyuan", "wan"} THEN parse_number(m) * 10000
    ELSE IF m.unit \in {"usd", "usd_prefix"}
         THEN (parse_number(m) * EXCHANGE_USD_TO_RMB_TENTHS) \div 10
    ELSE parse_number(m)

MoneyLit(n, u) == MoneyTok(parse_val(money_match(n, u)))

\* len() of the literal
TokLen(t) ==
    CASE t.w = "sp" -> 1
      [] t.w = "x" -> 1
      [] t.w = "icp" -> 14
      [] t.w = "date" -> 10
      [] t.w = "to" -> 1
      [] t.w = "daysleft" -> 11
      [] t.w = "notice" -> 2
      [] t.w = "contest" -> 2
      [] t.w = "acm" -> 7
      [] t.w = "algo" -> 2
      [] t.w = "modeling" -> 4
      [] t.w = "kaggle" -> 6
      [] t.w = "startup" -> 2
      [] t.w = "national" -> 5
      [] t.w = "money" -> 5
      [] t.w = "poolkw" -> 3
      [] t.w = "prizepool" -> 10
      [] t.w = "maxkw" -> 3
      [] OTHER -> 1

TextLen(text) == SumSeq([i \in 1..Len(text) |-> TokLen(text[i])])

Has(text, w) == \E i \in 1..Len(text) : text[i].w = w
HasAny(text, ws) == \E i \in 1..Len(text) : text[i].w \in ws

\* re.sub(r'\s+', ' ', title).strip()
RECURSIVE collapse_ws(_)
collapse_ws(text) ==
    IF text = <<>> THEN <<>>
    ELSE IF Head(text).w = "sp" /\ (Len(text) = 1 \/ text[2].w = "sp")
         THEN collapse_ws(Tail(text))
         ELSE <<Head(text)>> \o collapse_ws(Tail(text))

clean_ws(text) ==
    LET c == collapse_ws(text)
    IN  IF c # <<>> /\ Head(c).w = "sp" THEN Tail(c) ELSE c

\* normalize_title: the cleaned title, or <<>> for None
normalize_title(title) ==
    LET t == clean_ws(title)
        is_notice == Has(t, "notice")
        has_contest == HasAny(t, {"contest"})
    IN  IF title = <<>> THEN <<>>
        ELSE IF Has(t, "icp") THEN <<>>
        ELSE IF t # <<>> /\ \A i \in 1..Len(t) : t[i].w \in {"date", "sp"} THEN <<>>
        ELSE IF TextLen(t) < 4 THEN <<>>
        ELSE IF is_notice /\ ~has_contest THEN <<>>
        ELSE t

----------------------------------------------------------------------------
(* Dates in a text                                                         *)

DatesOf(text) == SelectSeq(text, LAMBDA t : t.w = "date")

\* the first token after position i that is not white space, or 0
NextNonSp(text, i) ==
    LET js == {j \in (i+1)..Len(text) : text[j].w # "sp"}
    IN  IF js = {} THEN 0 ELSE CHOOSE j \in js : \A k \in js : j <= k

\* the positions i where "date [sp] to [sp] date" starts
RangeStarts(text) ==
    {i \in 1..Len(text) :
        /\ text[i].w = "date"
        /\ LET j == NextNonSp(text, i)
           IN  /\ j # 0 /\ text[j].w = "to"
               /\ LET k == NextNonSp(text, j)
                  IN  k # 0 /\ text[k].w = "date"}

\* parse_date_range: <<start, end>>, 0 for None
parse_date_range(text) ==
    LET rs == RangeStarts(text)
        ds == DatesOf(text)
    IN  IF rs # {}
        THEN LET i == CHOOSE i \in rs : \A k \in rs : i <= k
                 j == NextNonSp(text, NextNonSp(text, i))
             IN  <<text[i].d, text[j].d>>
        ELSE IF ds = <<>> THEN <<0, 0>>
        ELSE <<0, ds[Len(ds)].d>>

\* parse_deadline: the last date, else "N days left" from now, else ""
parse_deadline(text, day) ==
    LET ds == DatesOf(text)
        rel == SelectSeq(text, LAMBDA t : t.w = "daysleft")
    IN  IF ds # <<>> THEN ds[Len(ds)].d
        ELSE IF rel # <<>> THEN day + rel[1].d
        ELSE 0

----------------------------------------------------------------------------
(* determine_status                                                        *)

\* determine_status with rules 1 and 2 in the other order
determine_status_upcoming_first(start_date, deadline, day, t) ==
    IF Parses(start_date) /\ DtAfterNow(start_date, day, t) THEN "upcoming"
    ELSE IF Parses(deadline) /\ DtBeforeNow(deadline, day, t) /\ deadline < day
    THEN "ended"
    ELSE IF Parses(start_date) /\ Parses(deadline)
            /\ ~DtAfterNow(start_date, day, t) /\ ~DtBeforeNow(deadline, day, t)
         THEN "ongoing"
    ELSE IF Parses(deadline) /\ ~DtBeforeNow(deadline, day, t) THEN "open"
    ELSE "unknown"

determine_status(start_date, deadline, day, t) ==
    IF Parses(deadline) /\ DtBeforeNow(deadline, day, t) /\ deadline < day
    THEN "ended"
    ELSE IF Parses(start_date) /\ DtAfterNow(start_date, day, t) THEN "upcoming"
    ELSE IF Parses(start_date) /\ Parses(deadline)
            /\ ~DtAfterNow(start_date, day, t) /\ ~DtBeforeNow(deadline, day, t)
         THEN "ongoing"
    ELSE IF Parses(deadline) /\ ~DtBeforeNow(deadline, day, t) THEN "open"
    ELSE "unknown"


----------------------------------------------------------------------------
(* Configuration: tools/whitelist.yaml and the source names                *)
(*                                                                         *)
(* Categories: "coding" is 编程, "modeling" 数学建模, "ai_data" AI数据,    *)
(* "startup" 创新创业.  Source names: "Kaggle", "Codeforces", "Saikr"      *)
(* (赛氪), "CUMCM" (CUMCM 官网公告).                                       *)

VOCAB == {"coding", "modeling", "ai_data", "startup"}

\* load_whitelist(): the rules in order, and the official domains
Whitelist ==
    [whitelist |-> << [pattern |-> "national", level |-> "National",
                       reason |-> "whitelist:national"],
                      [pattern |-> "kaggle", level |-> "International",
                       reason |-> "whitelist:kaggle"] >>,
     official_domains |-> {"edu"}]

\* the tokens a source name reads as
SourceToks(name) ==
    CASE name = "Kaggle" -> <<Tok("kaggle")>>
      [] name = "Codeforces" -> <<Tok("codeforces")>>
      [] name = "CUMCM" -> <<Tok("cumcm")>>
      [] name = "Saikr" -> <<Tok("saikr")>>
      [] OTHER -> <<>>

\* (title + " " + summary + " " + sourceName).lower()
ItemText(item) ==
    item.title \o <<Tok("sp")>> \o item.summary \o <<Tok("sp")>>
        \o SourceToks(item.sourceName)

----------------------------------------------------------------------------
(* classify_item                                                           *)

\* which keyword lists of classify_item a token's literal matches
KeywordCats(w) ==
    CASE w = "acm" -> {"coding"}
      [] w = "codeforces" -> {"coding"}
      [] w = "algo" -> {"coding", "ai_data"}
      [] w = "modeling" -> {"modeling"}
      [] w = "cumcm" -> {"modeling"}
      [] w = "kaggle" -> {"ai_data"}
      [] w = "startup" -> {"startup"}
      [] OTHER -> {}

MatchedCats(text) == UNION {KeywordCats(text[i].w) : i \in 1..Len(text)}

\* classify_item without the "Fallback / Priority" lines
priority_collapse_keeps_all(cats) == cats

\* the "Fallback / Priority" lines: one category by priority
priority_collapse(cats) ==
    IF "coding" \in cats THEN {"coding"}
    ELSE IF "modeling" \in cats THEN {"modeling"}
    ELSE IF "ai_data" \in cats THEN {"ai_data"}
    ELSE IF "startup" \in cats THEN {"startup"}
    ELSE cats

WhitelistTags(text) ==
    {IF r.level = "National" THEN "national_level" ELSE "international_level" :
        r \in {q \in Range(Whitelist.whitelist) :
                  Has(text, q.pattern) /\ q.level \in {"National", "International"}}}

\* classify_item: [cats, tags]
classify_item(item) ==
    LET text == ItemText(item)
    IN  [cats |-> priority_collapse(MatchedCats(text)),
         tags |-> WhitelistTags(text)
                  \cup (IF Has(text, "national") THEN {"university"} ELSE {})
                  \cup (IF item.bonusAmount > 0 THEN {"has_bonus"} ELSE {})
                  \cup (IF item.status = "ongoing" THEN {"tag_ongoing"} ELSE {})
                  \cup (IF item.status = "open" THEN {"tag_open"} ELSE {})]

----------------------------------------------------------------------------
(* rank_item                                                               *)

\* the first whitelist rule whose pattern the text matches, as a sequence of
\* at most one rule
FirstRule(text) ==
    LET hit == SelectSeq(Whitelist.whitelist, LAMBDA r : Has(text, r.pattern))
    IN  IF hit = <<>> THEN <<>> ELSE <<hit[1]>>

HighAuthority(src_name) == src_name \in {"Kaggle", "CUMCM"}

\* the part of a URL string an official domain is looked for in
OfficialUrl(url) == url # NoUrl /\ url.host \in Whitelist.official_domains

\* 3. Deadline Urgency, with the tiers the other way round
deadline_urgency_far_first(status, deadline, day, t) ==
    IF ~(status \in {"open", "ongoing"} /\ Parses(deadline)) THEN 0
    ELSE IF 0 <= DaysUntil(deadline, day, t) /\ DaysUntil(deadline, day, t) <= 3 THEN 30
    ELSE IF 0 <= DaysUntil(deadline, day, t) /\ DaysUntil(deadline, day, t) <= 7 THEN 80
    ELSE IF 0 <= DaysUntil(deadline, day, t) /\ DaysUntil(deadline, day, t) <= 30 THEN 120
    ELSE 0

\* 3. Deadline Urgency (for open/ongoing)
deadline_urgency(status, deadline, day, t) ==
    IF ~(status \in {"open", "ongoing"} /\ Parses(deadline)) THEN 0
    ELSE IF 0 <= DaysUntil(deadline, day, t) /\ DaysUntil(deadline, day, t) <= 3 THEN 120
    ELSE IF 0 <= DaysUntil(deadline, day, t) /\ DaysUntil(deadline, day, t) <= 7 THEN 80
    ELSE IF 0 <= DaysUntil(deadline, day, t) /\ DaysUntil(deadline, day, t) <= 30 THEN 30
    ELSE 0

\* 5. Bonus Weight, with nothing for the top tier
bonus_weight_top_tier_dropped(bonus) ==
    IF bonus >= 100000 THEN 0
    ELSE IF bonus >= 50000 THEN 60
    ELSE IF bonus >= 10000 THEN 40
    ELSE IF bonus >= 5000 THEN 20
    ELSE 0

\* 5. Bonus Weight
bonus_weight(bonus) ==
    IF bonus >= 100000 THEN 80
    ELSE IF bonus >= 50000 THEN 60
    ELSE IF bonus >= 10000 THEN 40
    ELSE IF bonus >= 5000 THEN 20
    ELSE 0

rank_item(item, day, t) ==
    LET text == ItemText(item)
        rule == FirstRule(text)
        wlScore == IF rule = <<>> THEN 0
                   ELSE 200 + (IF rule[1].level = "National" THEN 100 ELSE 0)
        wlReasons == IF rule = <<>> THEN <<>>
                     ELSE <<rule[1].reason>>
                          \o (IF rule[1].level = "National" THEN <<"national">> ELSE <<>>)
        status == IF item.status = "" THEN "unknown" ELSE item.status
        soon == Parses(item.startDate) /\ DaysUntil(item.startDate, day, t) <= 14
        stScore == CASE status \in {"ongoing", "open"} -> 300
                     [] status = "upcoming" -> IF soon THEN 260 ELSE 120
                     [] status = "unknown" -> 50
                     [] status = "ended" -> -500
                     [] OTHER -> 0
        stReasons == CASE status \in {"ongoing", "open"} -> <<"active">>
                       [] status = "upcoming" /\ soon -> <<"starting_soon">>
                       [] OTHER -> <<>>
        left == DaysUntil(item.deadline, day, t)
        urgent == status \in {"open", "ongoing"} /\ Parses(item.deadline)
        dlScore == deadline_urgency(status, item.deadline, day, t)
        dlReasons == IF ~urgent THEN <<>>
                     ELSE IF 0 <= left /\ left <= 3 THEN <<"closing">>
                     ELSE IF 0 <= left /\ left <= 7 THEN <<"closing_in_a_week">>
                     ELSE <<>>
        srcScore == IF HighAuthority(item.sourceName) THEN 120
                    ELSE IF item.sourceName = "Saikr" THEN 60
                    ELSE IF item.sourceName = "Codeforces" THEN 10
                    ELSE 0
        srcReasons == IF HighAuthority(item.sourceName) THEN <<"authority">> ELSE <<>>
        official == OfficialUrl(item.sourceUrl) /\ ~HighAuthority(item.sourceName)
        bonus == item.bonusAmount
        bonusScore == bonus_weight(bonus)
        bonusReasons == IF bonus >= 100000 THEN <<"huge_bonus">>
                        ELSE IF bonus >= 50000 THEN <<"high_bonus">>
                        ELSE <<>>
        catScore == IF item.category \cap VOCAB # {} THEN 10 ELSE 0
        reasons == wlReasons \o stReasons \o dlReasons \o srcReasons
                   \o (IF official THEN <<"official">> ELSE <<>>) \o bonusReasons
    IN  [qualityScore |-> wlScore + stScore + dlScore + srcScore
                          + (IF official THEN 20 ELSE 0) + bonusScore + catScore,
         rankReasons  |-> SubSeq(reasons, 1, IF Len(reasons) < 3 THEN Len(reasons) ELSE 3),
         isWhitelist  |-> rule # <<>>,
         level        |-> IF rule = <<>> THEN "Unknown" ELSE rule[1].level]


----------------------------------------------------------------------------
(* extract_bonus_max                                                       *)

\* the offset of token i in the string, and of its end
TokStart(text, i) == TextLen(SubSeq(text, 1, i - 1))
TokEnd(text, i) == TextLen(SubSeq(text, 1, i))

WINDOW == 20

\* keyword token kw lies in t[max(0, start-WINDOW) : min(len(t), end+WINDOW)]
\* around the match at token i
InContext(text, i, kw) ==
    \E j \in 1..Len(text) :
        /\ text[j].w = kw
        /\ TokStart(text, j) >= TokStart(text, i) - WINDOW
        /\ TokEnd(text, j) <= TokEnd(text, i) + WINDOW

MaxOf(S) == CHOOSE x \in S : \A y \in S : y <= x

\* [bonus, pool]: the amounts; the rendered text of an amount is modelled by
\* the amount (0 for "-")
extract_bonus_max(text) ==
    LET matches == {i \in 1..Len(text) : text[i].w = "money" /\ text[i].d > 0}
        pool  == {i \in matches : InContext(text, i, "poolkw")
                                    \/ InContext(text, i, "prizepool")}
        max   == {i \in matches \ pool : InContext(text, i, "maxkw")}
        other == (matches \ pool) \ max
        best(S) == MaxOf({text[i].d : i \in S})
    IN  [bonus |-> IF max # {} THEN best(max)
                   ELSE IF other # {} /\ best(other) >= 100 THEN best(other)
                   ELSE 0,
         pool  |-> IF pool # {} THEN best(pool) ELSE 0]

extract_bonus(text) == extract_bonus_max(text).bonus

----------------------------------------------------------------------------
(* Items                                                                   *)
(*                                                                         *)
(* An item is a record of the fields of a catalog entry.  A key that is    *)
(* absent reads as the value .get() defaults to: 0, "", <<>>, {}, FALSE.   *)
(* bonusText is the amount its text renders (0 for "-"), and is never      *)
(* absent after ensure_item_schema.  category and tags are sets: the code  *)
(* builds them with list(set(...)).                                        *)

BlankItem ==
    [id |-> NoId, title |-> <<>>, bonusAmount |-> 0, bonusText |-> 0,
     bonusPoolAmount |-> 0, deadline |-> 0, startDate |-> 0, status |-> "",
     category |-> {}, tags |-> {}, sourceName |-> "", sourceUrl |-> NoUrl,
     summary |-> <<>>, text |-> <<>>, createdAt |-> 0, qualityScore |-> 0,
     rankReasons |-> <<>>, isWhitelist |-> FALSE, level |-> "", invalid |-> FALSE]

With(item, patch) ==
    [k \in DOMAIN item |-> IF k \in DOMAIN patch THEN patch[k] ELSE item[k]]

\* ensure_item_schema, "Date & Status Logic": se is parse_date_range(text)
schema_dates(item, text, se, day, t) ==
    LET start == IF item.startDate = 0 /\ se[1] # 0 THEN se[1] ELSE item.startDate
        dl1 == IF item.deadline = 0 /\ se[2] # 0 THEN se[2] ELSE item.deadline
        dl == IF dl1 = 0 THEN parse_deadline(text, day) ELSE dl1
    IN  With(item, [startDate |-> start, deadline |-> dl,
                    status |-> determine_status(start, dl, day, t)])

\* schema_classify without the "Enforce 4 classes" line
schema_classify_any_category(item, ct) ==
    With(item, [category |-> item.category \cup ct.cats,
                tags |-> item.tags \cup ct.tags])

\* ensure_item_schema, "1. Classify & Tag": ct is classify_item(item)
schema_classify(item, ct) ==
    With(item, [category |-> (item.category \cup ct.cats) \cap VOCAB,
                tags |-> item.tags \cup ct.tags])

\* ensure_item_schema, "2. Rank"
schema_rank(item, day, t) == With(item, rank_item(item, day, t))

\* schema_fill with createdAt assigned, not defaulted
schema_fill_restamps(item, clean_title, day, t) ==
    LET a == With(item, [title |-> clean_title, createdAt |-> Stamp(day, t)])
        text == IF item.text # <<>> THEN item.text ELSE item.summary
        classified(b) == schema_classify(b, classify_item(b))
    IN  schema_rank(classified(schema_dates(a, text, parse_date_range(text), day, t)),
                    day, t)

\* ensure_item_schema from the defaults on: the title is clean_title
schema_fill(item, clean_title, day, t) ==
    LET a == With(item, [title |-> clean_title,
                         createdAt |-> IF item.createdAt = 0 THEN Stamp(day, t)
                                       ELSE item.createdAt])
        text == IF item.text # <<>> THEN item.text ELSE item.summary
        classified(b) == schema_classify(b, classify_item(b))
    IN  schema_rank(classified(schema_dates(a, text, parse_date_range(text), day, t)),
                    day, t)

ensure_item_schema(item, day, t) ==
    IF normalize_title(item.title) = <<>> THEN With(item, [invalid |-> TRUE])
    ELSE schema_fill(item, normalize_title(item.title), day, t)

\* norm_generic: a page [title, url, text, category] of source source_name
norm_generic(page, source_name, day, t) ==
    ensure_item_schema(
        With(BlankItem,
             [id |-> id_from_url(page.url), title |-> page.title,
              bonusAmount |-> extract_bonus(page.text),
              bonusText |-> extract_bonus(page.text),
              text |-> page.text, category |-> page.category,
              sourceName |-> source_name,
              sourceUrl |-> canonicalize_url(page.url),
              summary |-> page.title, createdAt |-> Stamp(day, t)]),
        day, t)


\* norm_codeforces: a contest [id, name, startTimeSeconds] of the API; its
\* URL is https://codeforces.com/contests/<id>
ContestUrl(c) ==
    [scheme |-> "https", host |-> "codeforces", path |-> <<"/", c.id>>, query |-> <<>>]

norm_codeforces(c, day, t) ==
    ensure_item_schema(
        With(BlankItem,
             [id |-> id_from_url(ContestUrl(c)), title |-> c.name,
              deadline |-> c.start, category |-> {"coding"},
              tags |-> {"Codeforces"}, sourceName |-> "Codeforces",
              sourceUrl |-> canonicalize_url(ContestUrl(c)),
              summary |-> <<Tok("codeforces"), Tok("sp"), Tok("contest")>>,
              createdAt |-> Stamp(day, t)]),
        day, t)

----------------------------------------------------------------------------
(* update_feed.py                                                          *)

MAX_EXPIRED_DAYS_DEFAULT == 7
MAX_EXPIRED_DAYS_WHITELIST == 30

\* rebuild_existing, "Canonicalize URL/ID again to be safe"
recanonicalize(new_it, su) ==
    IF su # NoUrl THEN With(new_it, [id |-> id_from_url(su), sourceUrl |-> su])
    ELSE new_it

\* one turn of rebuild_existing's loop, after the check of the title: the
\* rebuilt item, or nothing
rebuild_kept(new_it) ==
    IF new_it.invalid THEN <<>>
    ELSE <<recanonicalize(new_it, canonicalize_url(new_it.sourceUrl))>>

rebuild_one(it, day, t) ==
    IF normalize_title(it.title) = <<>> THEN <<>>
    ELSE rebuild_kept(ensure_item_schema(it, day, t))

RECURSIVE rebuild_existing(_, _, _)
rebuild_existing(feed_items, day, t) ==
    IF feed_items = <<>> THEN <<>>
    ELSE rebuild_one(Head(feed_items), day, t)
            \o rebuild_existing(Tail(feed_items), day, t)

\* merge_into with createdAt among the fields the new item overwrites
merge_into_createdAt_overwritten(existing, i, day, t) ==
    [existing EXCEPT
        !.title        = IF i.title # <<>> THEN i.title ELSE @,
        !.bonusAmount  = IF i.bonusAmount # 0 THEN i.bonusAmount ELSE @,
        !.bonusText    = i.bonusText,
        !.deadline     = IF i.deadline # 0 THEN i.deadline ELSE @,
        !.startDate    = IF i.startDate # 0 THEN i.startDate ELSE @,
        !.status       = IF i.status # "" THEN i.status ELSE @,
        !.category     = IF i.category # {} THEN i.category ELSE @,
        !.tags         = IF i.tags # {} THEN i.tags ELSE @,
        !.qualityScore = IF i.qualityScore # 0 THEN i.qualityScore ELSE @,
        !.rankReasons  = IF i.rankReasons # <<>> THEN i.rankReasons ELSE @,
        !.isWhitelist  = IF i.isWhitelist THEN TRUE ELSE @,
        !.level        = IF i.level # "" THEN i.level ELSE @,
        !.createdAt    = IF i.createdAt # 0 THEN i.createdAt ELSE @]

\* "if i.get(k): existing[k] = i[k]" for the twelve fields, then createdAt
merge_into(existing, i, day, t) ==
    [existing EXCEPT
        !.title        = IF i.title # <<>> THEN i.title ELSE @,
        !.bonusAmount  = IF i.bonusAmount # 0 THEN i.bonusAmount ELSE @,
        !.bonusText    = i.bonusText,
        !.deadline     = IF i.deadline # 0 THEN i.deadline ELSE @,
        !.startDate    = IF i.startDate # 0 THEN i.startDate ELSE @,
        !.status       = IF i.status # "" THEN i.status ELSE @,
        !.category     = IF i.category # {} THEN i.category ELSE @,
        !.tags         = IF i.tags # {} THEN i.tags ELSE @,
        !.qualityScore = IF i.qualityScore # 0 THEN i.qualityScore ELSE @,
        !.rankReasons  = IF i.rankReasons # <<>> THEN i.rankReasons ELSE @,
        !.isWhitelist  = IF i.isWhitelist THEN TRUE ELSE @,
        !.level        = IF i.level # "" THEN i.level ELSE @,
        !.createdAt    = IF @ # 0 THEN @
                         ELSE IF i.createdAt # 0 THEN i.createdAt ELSE Stamp(day, t)]

\* the index by_url maps a canonical URL to: the last item that has it
IndexOf(merged, cu) ==
    LET hits == {k \in 1..Len(merged) : canonicalize_url(merged[k].sourceUrl) = cu}
    IN  IF hits = {} THEN 0 ELSE MaxOf(hits)

\* the loop over new_items; m is [merged, by_url, added]: by_url the set of
\* <<canonical URL, index in merged>>, added the indices of the added items
RECURSIVE merge_loop(_, _, _, _)
merge_loop(m, new_items, day, t) ==
    IF new_items = <<>> THEN m
    ELSE LET i == Head(new_items)
             cu == canonicalize_url(i.sourceUrl)
             at == {e \in m.by_url : e[1] = cu}
         IN  IF at # {}
             THEN LET k == (CHOOSE e \in at : TRUE)[2]
                  IN  merge_loop([m EXCEPT !.merged[k] = merge_into(@, i, day, t)],
                                 Tail(new_items), day, t)
             ELSE merge_loop([merged |-> Append(m.merged, i),
                              by_url |-> m.by_url \cup {<<cu, Len(m.merged) + 1>>},
                              added  |-> Append(m.added, Len(m.merged) + 1)],
                             Tail(new_items), day, t)

\* merge_items: [merged, added]
merge_items(old_items, new_items, day, t) ==
    LET keys == {canonicalize_url(old_items[k].sourceUrl) : k \in 1..Len(old_items)}
        m == merge_loop([merged |-> old_items,
                         by_url |-> {<<cu, IndexOf(old_items, cu)>> : cu \in keys},
                         added  |-> <<>>],
                        new_items, day, t)
    IN  [merged |-> m.merged,
         added  |-> [k \in 1..Len(m.added) |-> m.merged[m.added[k]]]]


\* "status == 'ended' and deadline" and "(now_dt - dl_dt).days > max_days";
\* a deadline that does not parse raises, and the item passes
max_days(it) ==
    IF it.isWhitelist THEN MAX_EXPIRED_DAYS_WHITELIST ELSE MAX_EXPIRED_DAYS_DEFAULT

expired(it, day, t) ==
    /\ it.status = "ended"
    /\ Parses(it.deadline)
    /\ DaysSince(it.deadline, day, t) > max_days(it)

\* drop_reason without "0. Check invalid title"
drop_reason_title_unchecked(it, day, t) ==
    IF expired(it, day, t) THEN "expired"
    ELSE IF it.category \cap VOCAB # {} THEN ""
    ELSE "category_mismatch"

\* drop_reason without "2. Check category"
drop_reason_category_unchecked(it, day, t) ==
    IF it.invalid \/ it.title = <<>> THEN "bad_title"
    ELSE IF expired(it, day, t) THEN "expired"
    ELSE ""

\* the loop "for it in res" of main(): why an item is dropped, "" if kept
drop_reason(it, day, t) ==
    IF it.invalid \/ it.title = <<>> THEN "bad_title"
    ELSE IF expired(it, day, t) THEN "expired"
    ELSE IF it.category \cap VOCAB # {} THEN ""
    ELSE "category_mismatch"

harvest_filter(res, day, t) == SelectSeq(res, LAMBDA it : drop_reason(it, day, t) = "")

CountReason(res, r, day, t) == Len(SelectSeq(res, LAMBDA it : drop_reason(it, day, t) = r))

\* the final filter without "Check expiration again"
final_filter_titles_only(merged_items, day, t) ==
    SelectSeq(merged_items, LAMBDA it : normalize_title(it.title) # <<>>)

\* the "Final filter on merged items"
final_filter(merged_items, day, t) ==
    SelectSeq(merged_items,
              LAMBDA it : normalize_title(it.title) # <<>> /\ ~expired(it, day, t))

----------------------------------------------------------------------------
(* enrich_items_with_details                                               *)

\* cfg["sources"] (tools/sources.yaml); category_fixed "" when not set.
\* "cumcm" and "generic_html" go to fetch_generic_html, "rss" has no fetcher.
Sources ==
    << [name |-> "CUMCM", type |-> "cumcm", enabled |-> TRUE,
        category_fixed |-> "modeling", detail |-> TRUE, detail_limit |-> 1],
       [name |-> "Codeforces", type |-> "codeforces", enabled |-> TRUE,
        category_fixed |-> "", detail |-> FALSE, detail_limit |-> 30],
       [name |-> "Legacy", type |-> "generic_html", enabled |-> FALSE,
        category_fixed |-> "", detail |-> TRUE, detail_limit |-> 30],
       [name |-> "Board", type |-> "rss", enabled |-> TRUE,
        category_fixed |-> "", detail |-> FALSE, detail_limit |-> 30],
       [name |-> "Hub", type |-> "generic_html", enabled |-> TRUE,
        category_fixed |-> "general", detail |-> FALSE, detail_limit |-> 30] >>

\* src_map[name]: the last source of that name
SrcMap(name) ==
    LET hits == {k \in 1..Len(Sources) : Sources[k].name = name}
    IN  Sources[MaxOf(hits)]

SourceNames == {Sources[k].name : k \in 1..Len(Sources)}

\* the items enrichment considers: no bonus yet, a source that has detail
\* settings, not ended
Candidates(its) ==
    {k \in 1..Len(its) :
        /\ ~(its[k].bonusAmount > 0)
        /\ its[k].sourceName # "" /\ its[k].sourceName \in SourceNames
        /\ SrcMap(its[k].sourceName).detail
        /\ its[k].status # "ended"}

\* ToFetch without "[:limit]"
ToFetch_unlimited(its) == Candidates(its)

\* its.sort(key=createdAt, reverse=True)[:limit], per source: the candidates
\* of the source with fewer than limit candidates before them
ToFetch(its) ==
    LET C == Candidates(its)
        before(j, k) == \/ its[j].createdAt > its[k].createdAt
                        \/ (its[j].createdAt = its[k].createdAt /\ j < k)
    IN  {k \in C :
            Cardinality({j \in C : /\ its[j].sourceName = its[k].sourceName
                                   /\ before(j, k)})
                < SrcMap(its[k].sourceName).detail_limit}

\* the items a detail request is sent for: those that have a URL
Requested(its) == {k \in ToFetch(its) : its[k].sourceUrl # NoUrl}

\* the requests of "for item in to_fetch": the place of the item, the item
\* as it was, and whether requests.get and the parse went through
RequestLog(its, resps) ==
    {[at |-> k, item |-> its[k], ok |-> resps[k].ok] : k \in Requested(its)}

\* one item after its detail page: resp is [ok, text]
enrich_one(item, resp, day, t) ==
    LET b == extract_bonus_max(resp.text)
        a == [item EXCEPT
                !.bonusAmount = IF b.bonus > 0 THEN b.bonus ELSE @,
                !.bonusText = IF b.bonus > 0 THEN b.bonus ELSE @,
                !.bonusPoolAmount = IF b.pool > 0 THEN b.pool ELSE @]
    IN  IF ~resp.ok THEN item
        ELSE IF b.bonus > 0 \/ b.pool > 0 THEN With(a, rank_item(a, day, t))
        ELSE item

\* the items after enrichment; resps maps each requested index to a response
enrich_items_with_details(its, resps, day, t) ==
    [k \in 1..Len(its) |->
        IF k \in Requested(its) THEN enrich_one(its[k], resps[k], day, t) ELSE its[k]]

----------------------------------------------------------------------------
(* The final sort                                                          *)

\* 9999999999 seconds, the "far future" of sort_key, in half days: it lies
\* between the midnights of day 115740 and day 115741
FAR_FUTURE == 231481

dl_score(it) == IF Parses(it.deadline) THEN -(2 * it.deadline) ELSE -FAR_FUTURE

sort_key(it) == <<it.qualityScore, dl_score(it), it.createdAt>>

KeyLess(a, b) ==
    \/ a[1] < b[1]
    \/ (a[1] = b[1] /\ a[2] < b[2])
    \/ (a[1] = b[1] /\ a[2] = b[2] /\ a[3] < b[3])

\* list.sort(key=sort_key, reverse=True): stable, so an item goes after the
\* items before it whose key is not smaller
RECURSIVE insert_desc(_, _)
insert_desc(sorted, x) ==
    IF sorted = <<>> THEN <<x>>
    ELSE IF KeyLess(sort_key(Head(sorted)), sort_key(x))
         THEN <<x>> \o sorted
         ELSE <<Head(sorted)>> \o insert_desc(Tail(sorted), x)

RECURSIVE sort_desc_from(_, _)
sort_desc_from(sorted, rest) ==
    IF rest = <<>> THEN sorted
    ELSE sort_desc_from(insert_desc(sorted, Head(rest)), Tail(rest))

sort_items(its) == sort_desc_from(<<>>, its)


----------------------------------------------------------------------------
(* The fetchers                                                            *)

FETCHERS == {"codeforces", "cumcm", "generic_html"}

\* fetch_generic_html: the pages it found, normalised; invalid ones dropped
fetch_generic_html(config, pages, day, t) ==
    LET item(p) == norm_generic(
                       [title |-> p.title, url |-> p.url, text |-> p.text,
                        category |-> IF config.category_fixed # ""
                                     THEN {config.category_fixed} ELSE {}],
                       config.name, day, t)
        res == [k \in 1..Len(pages) |-> item(pages[k])]
    IN  SelectSeq(res, LAMBDA it : ~it.invalid)

\* fetch_codeforces: the contests of the API answer, normalised
fetch_codeforces(config, contests, day, t) ==
    [k \in 1..Len(contests) |-> norm_codeforces(contests[k], day, t)]

fetch(config, found, day, t) ==
    IF config.type = "codeforces" THEN fetch_codeforces(config, found, day, t)
    ELSE fetch_generic_html(config, found, day, t)


----------------------------------------------------------------------------
(* Bounds and inputs                                                       *)

Day0 == 20000        \* the day of the first run
MaxRuns == 2         \* runs of main() in a behaviour
MaxFetch == 1        \* pages (contests) one fetch returns

TimeSteps == {0, 8}  \* days between two runs
DayFar == 120000     \* a day of the year 2298

UrlA == [scheme |-> "https", host |-> "site", path |-> <<"/", "a">>, query |-> <<>>]
\* http://site/a/?utm_source=x : the same page as UrlA
UrlA_tracked ==
    [scheme |-> "http", host |-> "site", path |-> <<"/", "a", "/">>,
     query |-> <<[k |-> "utm_source", v |-> "x", eq |-> TRUE]>>]
UrlB == [scheme |-> "https", host |-> "edu", path |-> <<"/", "b">>,
         query |-> <<[k |-> "id", v |-> "1", eq |-> TRUE]>>]
UrlC == [scheme |-> "https", host |-> "site", path |-> <<"/", "c">>, query |-> <<>>]

TitleAlgo == <<Tok("algo"), Tok("contest")>>
TitleNational == <<Tok("national"), Tok("modeling"), Tok("contest")>>
TitleModeling == <<Tok("modeling"), Tok("sp"), Tok("contest")>>
TitleNotice == <<Tok("modeling"), Tok("notice")>>
TitlePlain == <<Tok("x"), Tok("x"), Tok("contest")>>

\* what the list page of a source can hold: [title, url, text]
PagesOf(name) ==
    CASE name = "CUMCM" ->
            { [title |-> TitleAlgo, url |-> UrlA, text |-> <<>>],
              [title |-> TitleNotice, url |-> UrlB, text |-> <<>>] }
      [] name = "Hub" ->
            { [title |-> TitleAlgo, url |-> UrlA_tracked,
               text |-> <<Tok("maxkw"), MoneyTok(50000), DateTok(Day0 + 2)>>],
              [title |-> TitlePlain, url |-> UrlC, text |-> <<>>],
              [title |-> TitleModeling, url |-> UrlC,
               text |-> <<DateTok(Day0 - 3)>>] }
      [] name = "Codeforces" ->
            { [id |-> "c1", name |-> <<Tok("acm"), Tok("contest")>>, start |-> Day0 + 1],
              [id |-> "c2", name |-> <<Tok("notice")>>, start |-> Day0 + 1] }
      [] OTHER -> {}

\* a fetch can raise when its request is not guarded: fetch_codeforces
CanRaise(config) == config.type = "codeforces"

\* what a detail request of the enrichment can answer: [ok, text]
DetailResponses ==
    { [ok |-> FALSE, text |-> <<>>],
      [ok |-> TRUE, text |-> <<Tok("x")>>],
      [ok |-> TRUE, text |-> <<Tok("maxkw"), MoneyTok(50000)>>] }

Stored(patch) == With(BlankItem, patch)

\* catalogs found in feed.json at the first run: written by earlier runs,
\* by earlier versions of the rules, or edited
OldA ==
    Stored([id |-> id_from_url(UrlA), title |-> TitleAlgo, sourceUrl |-> UrlA,
            sourceName |-> "CUMCM", summary |-> TitleAlgo, status |-> "unknown",
            category |-> {"modeling", "coding"}, bonusText |-> 0,
            createdAt |-> Stamp(Day0 - 5, 1)])
OldA_tracked ==
    Stored([id |-> id_from_url(UrlA), title |-> TitleModeling, sourceUrl |-> UrlA_tracked,
            sourceName |-> "Hub", summary |-> TitleModeling,
            createdAt |-> Stamp(Day0 - 3, 1)])
StaleOrdinary ==
    Stored([id |-> id_from_url(UrlC), title |-> TitleModeling, sourceUrl |-> UrlC,
            sourceName |-> "Hub", summary |-> TitleModeling, deadline |-> Day0 - 10,
            category |-> {"modeling"}, createdAt |-> Stamp(Day0 - 40, 1)])
StaleWhitelist ==
    Stored([id |-> id_from_url(UrlB), title |-> TitleNational, sourceUrl |-> UrlB,
            sourceName |-> "Hub", summary |-> TitleNational, deadline |-> Day0 - 10,
            category |-> {"modeling"}, createdAt |-> Stamp(Day0 - 40, 1)])
OldNotice ==
    Stored([id |-> id_from_url(UrlB), title |-> TitleNotice, sourceUrl |-> UrlB,
            sourceName |-> "CUMCM", summary |-> TitleNotice,
            category |-> {"modeling", "sports"}, createdAt |-> Stamp(Day0 - 5, 1)])
OldOffVocab ==
    Stored([id |-> id_from_url(UrlC), title |-> TitlePlain, sourceUrl |-> UrlC,
            sourceName |-> "Hub", summary |-> TitlePlain,
            category |-> {"sports", "startup"}, createdAt |-> Stamp(Day0 - 5, 1)])

\* two records that differ in their deadline: none, and one of the year 2298
OldNoDeadline ==
    Stored([id |-> id_from_url(UrlC), title |-> TitleModeling, sourceUrl |-> UrlC,
            sourceName |-> "Hub", summary |-> TitleModeling, startDate |-> Day0 + 20,
            category |-> {"modeling"}, createdAt |-> Stamp(Day0 - 5, 1)])
OldFarDeadline ==
    Stored([id |-> id_from_url(UrlA), title |-> TitleModeling, sourceUrl |-> UrlA,
            sourceName |-> "Hub", summary |-> TitleModeling, startDate |-> Day0 + 20,
            deadline |-> DayFar, category |-> {"modeling"},
            createdAt |-> Stamp(Day0 - 5, 1)])

\* three records without a prize: two of CUMCM, whose detail_limit is 1, and
\* one of Legacy, a source no longer enabled that has detail settings
OldC ==
    Stored([id |-> id_from_url(UrlC), title |-> TitleModeling, sourceUrl |-> UrlC,
            sourceName |-> "CUMCM", summary |-> TitleModeling, status |-> "unknown",
            category |-> {"modeling"}, createdAt |-> Stamp(Day0 - 4, 1)])
OldLegacy ==
    Stored([id |-> id_from_url(UrlB), title |-> TitleModeling, sourceUrl |-> UrlB,
            sourceName |-> "Legacy", summary |-> TitleModeling, status |-> "unknown",
            category |-> {"modeling"}, createdAt |-> Stamp(Day0 - 5, 1)])

InitialFeeds ==
    { <<>>,
      <<OldA, OldC, OldLegacy>>,
      <<OldA>>,
      <<OldA, OldA_tracked>>,
      <<StaleOrdinary, StaleWhitelist>>,
      <<OldNotice, OldOffVocab>>,
      <<OldFarDeadline, OldNoDeadline>> }

----------------------------------------------------------------------------
(* The state machine: runs of main()                                       *)

Seen(its) == {[k |-> canonicalize_url(its[i].sourceUrl), c |-> its[i].createdAt] :
                i \in {j \in 1..Len(its) : its[j].createdAt # 0}}

\* per canonical URL, the earliest createdAt among the pairs of S
Earliest(S) == {e \in S : \A f \in S : f.k = e.k => e.c <= f.c}

NoArgs == [dry_run |-> FALSE, ci |-> FALSE]

NoCall == [fn |-> "", arg |-> <<>>, ret |-> <<>>]

Init ==
    /\ feed \in {[items |-> f, updatedAt |-> IF f = <<>> THEN 0 ELSE Stamp(Day0 - 1, 1)] :
                    f \in InitialFeeds}
    /\ today = Day0
    /\ tod \in {0, 1}
    /\ pc = "idle"
    /\ args = NoArgs
    /\ items = <<>>
    /\ all_new = <<>>
    /\ added = <<>>
    /\ stats = {}
    /\ si = 1
    /\ exit_code = -1
    /\ detail_reqs = {}
    /\ runs = 0
    /\ hist = Earliest(Seen(feed.items))
    /\ call = NoCall

\* main() up to the loop over the sources: parse_args, load_feed,
\* rebuild_existing
StartRun ==
    /\ pc = "idle"
    /\ runs < MaxRuns
    /\ \E dry \in BOOLEAN, ci \in BOOLEAN : args' = [dry_run |-> dry, ci |-> ci]
    /\ items' = rebuild_existing(feed.items, today, tod)
    /\ all_new' = <<>>
    /\ added' = <<>>
    /\ stats' = {}
    /\ si' = 1
    /\ exit_code' = -1
    /\ detail_reqs' = {}
    /\ runs' = runs + 1
    /\ pc' = "harvest"
    /\ UNCHANGED <<call, feed, today, tod, hist>>

\* one turn of "for s in cfg.get('sources', [])": a source that is not
\* enabled or has no fetcher
SkipSource ==
    /\ pc = "harvest"
    /\ si <= Len(Sources)
    /\ ~Sources[si].enabled \/ Sources[si].type \notin FETCHERS
    /\ si' = si + 1
    /\ UNCHANGED <<call, feed, today, tod, pc, args, items, all_new, added, stats,
                   exit_code, detail_reqs, runs, hist>>

SetStat(st, entry) == {e \in st : e.name # entry.name} \cup {entry}

\* the "try" body of the loop once fn(s) has returned res
Harvested(name, res) ==
    /\ all_new' = all_new \o harvest_filter(res, today, tod)
    /\ stats' = SetStat(stats,
          [name |-> name, fetched |-> Len(res),
           kept |-> Len(res) - CountReason(res, "bad_title", today, tod)
                             - CountReason(res, "expired", today, tod)
                             - CountReason(res, "category_mismatch", today, tod),
           dropped |-> CountReason(res, "bad_title", today, tod)
                       + CountReason(res, "expired", today, tod)
                       + CountReason(res, "category_mismatch", today, tod),
           bad_title |-> CountReason(res, "bad_title", today, tod),
           expired |-> CountReason(res, "expired", today, tod),
           category_mismatch |-> CountReason(res, "category_mismatch", today, tod),
           error |-> FALSE])

\* one turn of the loop: the fetch returns, its items are filtered
HarvestSource ==
    /\ pc = "harvest"
    /\ si <= Len(Sources)
    /\ Sources[si].enabled /\ Sources[si].type \in FETCHERS
    /\ \E found \in SeqsUpTo(PagesOf(Sources[si].name), MaxFetch) :
          Harvested(Sources[si].name, fetch(Sources[si], found, today, tod))
    /\ si' = si + 1
    /\ UNCHANGED <<call, feed, today, tod, pc, args, items, added, exit_code,
                   detail_reqs, runs, hist>>

\* the loop without its "try": the exception of the fetch ends the process
SourceFails_aborts ==
    /\ pc = "harvest"
    /\ si <= Len(Sources)
    /\ Sources[si].enabled /\ Sources[si].type \in FETCHERS
    /\ CanRaise(Sources[si])
    /\ pc' = "done"
    /\ exit_code' = 1
    /\ UNCHANGED <<call, feed, today, tod, args, items, all_new, added, stats, si,
                   detail_reqs, runs, hist>>

\* one turn of the loop: the fetch raises, "except Exception as e"
SourceFails ==
    /\ pc = "harvest"
    /\ si <= Len(Sources)
    /\ Sources[si].enabled /\ Sources[si].type \in FETCHERS
    /\ CanRaise(Sources[si])
    /\ stats' = SetStat(stats,
          [name |-> Sources[si].name, fetched |-> 0, kept |-> 0, dropped |-> 0,
           bad_title |-> 0, expired |-> 0, category_mismatch |-> 0, error |-> TRUE])
    /\ si' = si + 1
    /\ UNCHANGED <<call, feed, today, tod, pc, args, items, all_new, added, exit_code,
                   detail_reqs, runs, hist>>

\* datetime.now() is read anew at each use: the time of day moves on while
\* the sources are fetched
Later ==
    /\ pc = "harvest"
    /\ tod = 0
    /\ tod' = 1
    /\ UNCHANGED <<call, feed, today, pc, args, items, all_new, added, stats, si,
                   exit_code, detail_reqs, runs, hist>>

\* "merged_items, added = merge_items(...)"
Merged(m) ==
    /\ items' = m.merged
    /\ added' = m.added

\* after the loop: merge_items(feed["items"], all_new)
Merge ==
    /\ pc = "harvest"
    /\ si > Len(Sources)
    /\ Merged(merge_items(items, all_new, today, tod))
    /\ pc' = "merged"
    /\ UNCHANGED <<call, feed, today, tod, args, all_new, stats, si, exit_code,
                   detail_reqs, runs, hist>>

\* Conclude without "if args.dry_run: sys.exit(0)" before the save
Conclude_saves_on_dry_run(final_items, requested) ==
    LET saved == ~(Len(final_items) = 0 /\ args.ci)
    IN  /\ items' = final_items
        /\ detail_reqs' = requested
        /\ feed' = IF saved
                   THEN [items |-> final_items, updatedAt |-> Stamp(today, tod)]
                   ELSE feed
        /\ exit_code' = IF args.dry_run THEN 0
                        ELSE IF Len(final_items) = 0 /\ args.ci THEN 1
                        ELSE 0
        /\ hist' = IF saved THEN Earliest(hist \cup Seen(final_items)) ELSE hist

\* the end of main(): the summary, then the save unless --dry-run, or --ci
\* with no item
Conclude(final_items, requested) ==
    LET saved == ~args.dry_run /\ ~(Len(final_items) = 0 /\ args.ci)
    IN  /\ items' = final_items
        /\ detail_reqs' = requested
        /\ feed' = IF saved
                   THEN [items |-> final_items, updatedAt |-> Stamp(today, tod)]
                   ELSE feed
        /\ exit_code' = IF args.dry_run THEN 0
                        ELSE IF Len(final_items) = 0 /\ args.ci THEN 1
                        ELSE 0
        /\ hist' = IF saved THEN Earliest(hist \cup Seen(final_items)) ELSE hist

\* the final filter done: the enrichment, each detail request answered by
\* some response, and the sort
EnrichSortSave(final_items) ==
    \E resps \in [Requested(final_items) -> DetailResponses] :
        Conclude(sort_items(enrich_items_with_details(final_items, resps, today, tod)),
                 RequestLog(final_items, resps))

\* the rest of main(): the final filter, the enrichment, the sort, the save
Finish ==
    /\ pc = "merged"
    /\ EnrichSortSave(final_filter(items, today, tod))
    /\ pc' = "done"
    /\ UNCHANGED <<call, today, tod, args, all_new, added, stats, si, runs>>

\* the process has ended; time passes until the next run, which starts
\* later in its day
Tick ==
    /\ pc = "done"
    /\ runs < MaxRuns
    /\ \E step \in TimeSteps : today' = today + step
    /\ tod' = 1
    /\ pc' = "idle"
    /\ args' = NoArgs
    /\ items' = <<>>
    /\ all_new' = <<>>
    /\ added' = <<>>
    /\ stats' = {}
    /\ si' = 1
    /\ exit_code' = -1
    /\ detail_reqs' = {}
    /\ UNCHANGED <<call, feed, runs, hist>>

Next ==
    \/ StartRun
    \/ SkipSource
    \/ HarvestSource
    \/ SourceFails
    \/ Later
    \/ Merge
    \/ Finish
    \/ Tick

Spec == Init /\ [][Next]_vars

----------------------------------------------------------------------------
(* The library on its own: the functions of normalize.py and classify.py   *)
(* called directly, on arguments drawn from bounded sets, at the clock of  *)
(* the initial state; a behaviour makes one call.                          *)

main_vars == <<feed, today, tod, pc, args, items, all_new, added, stats, si,
               exit_code, detail_reqs, runs, hist>>

MaxPath == 4         \* pieces in a URL's path
MaxQuery == 2        \* parameters in a URL's query

PathPieces == {"/", ";", "a"}

\* after a host, a path is empty or starts with "/"
Paths == {p \in SeqsUpTo(PathPieces, MaxPath) : p = <<>> \/ p[1] = "/"}

\* "id=1", "utm_source=x", "a" and "a="
Params ==
    {[k |-> "id", v |-> "1", eq |-> TRUE],
     [k |-> "utm_source", v |-> "x", eq |-> TRUE],
     [k |-> "a", v |-> "", eq |-> FALSE],
     [k |-> "a", v |-> "", eq |-> TRUE]}

Urls ==
    {NoUrl} \cup
    {[scheme |-> s, host |-> "site", path |-> p, query |-> q] :
        s \in {"http", "https"}, p \in Paths, q \in SeqsUpTo(Params, MaxQuery)}

LibInit == Init /\ feed.items = <<>>

Call_canonicalize_url ==
    /\ call = NoCall
    /\ \E u \in Urls :
          call' = [fn |-> "canonicalize_url", arg |-> u, ret |-> canonicalize_url(u)]
    /\ UNCHANGED main_vars

\* the same page under another address: one more trailing slash, the other
\* scheme, one more tracking parameter
WithSlash(u) == [u EXCEPT !.path = Append(@, "/")]
OtherScheme(u) == [u EXCEPT !.scheme = IF @ = "http" THEN "https" ELSE "http"]
Tracked(u, v) ==
    [u EXCEPT !.query = Append(@, [k |-> "utm_source", v |-> v, eq |-> TRUE])]

SamePage(u) ==
    {WithSlash(u), OtherScheme(u), Tracked(u, "x"), Tracked(u, "y"),
     WithSlash(OtherScheme(Tracked(u, "x")))}

\* id_from_url on two addresses of one page
Call_id_from_url ==
    /\ call = NoCall
    /\ \E u \in Urls \ {NoUrl} : \E v \in SamePage(u) :
          call' = [fn |-> "id_from_url", arg |-> <<u, v>>,
                   ret |-> <<id_from_url(u), id_from_url(v)>>]
    /\ UNCHANGED main_vars

MaxAway == 2         \* days between a date argument and today

\* a date string: absent, malformed, or a day around today
DateArgs == {0, BadDate} \cup ((Day0 - MaxAway)..(Day0 + MaxAway))

Call_determine_status ==
    /\ call = NoCall
    /\ \E s \in DateArgs, d \in DateArgs :
          call' = [fn |-> "determine_status",
                   arg |-> [start_date |-> s, deadline |-> d],
                   ret |-> determine_status(s, d, today, tod)]
    /\ UNCHANGED main_vars

\* items for rank_item: a whitelisted national contest from an authoritative
\* source and an ordinary one, in every status, with and without a start date
RankBases ==
    {With(BlankItem, [title |-> b.title, sourceName |-> b.sourceName,
                      sourceUrl |-> b.sourceUrl, category |-> b.category,
                      status |-> st, startDate |-> sd]) :
        b \in {[title |-> TitleAlgo, sourceName |-> "Hub", sourceUrl |-> UrlA,
                category |-> {"coding"}],
               [title |-> TitleNational, sourceName |-> "CUMCM", sourceUrl |-> UrlB,
                category |-> {"modeling"}]},
        st \in {"open", "ongoing", "upcoming", "ended", "unknown"},
        sd \in {0, Day0 + MaxAway}}

\* bonus amounts on both sides of every tier of 5. Bonus Weight
BonusArgs == {0, 4999, 5000, 10000, 50000, 99999, 100000}

\* deadlines: absent, malformed, past, today, and days on both sides of
\* every tier of 3. Deadline Urgency
DeadlineArgs ==
    {0, BadDate, Day0 - 1} \cup {Day0 + k : k \in {0, 1, 3, 4, 5, 7, 8, 9, 30, 31, 32}}

RankArgs ==
    {With(b, [bonusAmount |-> m, deadline |-> d]) :
        b \in RankBases, m \in BonusArgs, d \in DeadlineArgs}

\* rank_item on two items that differ in the bonus amount only, or in the
\* deadline only
Call_rank_item ==
    /\ call = NoCall
    /\ \E a \in RankArgs :
        \E b \in {With(a, [bonusAmount |-> m]) : m \in {n \in BonusArgs : n > a.bonusAmount}}
              \cup {With(a, [deadline |-> d]) : d \in {e \in DeadlineArgs : e > a.deadline}} :
          call' = [fn |-> "rank_item", arg |-> [a |-> a, b |-> b],
                   ret |-> [a |-> rank_item(a, today, tod), b |-> rank_item(b, today, tod)]]
    /\ UNCHANGED main_vars

\* texts for extract_bonus: an optional keyword, then an amount with its
\* unit; texts without any amount
MoneyDigits == {10, 99, 100, 1000, 5000}
MoneyUnits == {"wanyuan", "sp_wanyuan", "wan", "yuan", "usd", "usd_prefix"}
BonusKeywords == {"", "poolkw", "prizepool", "maxkw"}

KeywordToks(kw) == IF kw = "" THEN <<>> ELSE <<Tok(kw), Tok("x")>>

BonusTexts ==
    {[kw |-> kw, n |-> n, u |-> u, text |-> KeywordToks(kw) \o <<MoneyLit(n, u)>>] :
        kw \in BonusKeywords, n \in MoneyDigits, u \in MoneyUnits}
    \cup {[kw |-> kw, n |-> 0, u |-> "", text |-> KeywordToks(kw) \o <<Tok("contest")>>] :
            kw \in BonusKeywords}
    \cup {[kw |-> "", n |-> 0, u |-> "", text |-> <<>>]}

Call_extract_bonus ==
    /\ call = NoCall
    /\ \E a \in BonusTexts :
          call' = [fn |-> "extract_bonus", arg |-> a,
                   ret |-> [amount |-> extract_bonus(a.text),
                            pool |-> extract_bonus_max(a.text).pool]]
    /\ UNCHANGED main_vars

\* the same URL with its query parameters in the reverse order
Reversed(q) == [k \in 1..Len(q) |-> q[Len(q) + 1 - k]]
Reordered(u) == [u EXCEPT !.query = Reversed(@)]

\* canonicalize_url and id_from_url on a URL and on its reordering
Call_canonicalize_reordered ==
    /\ call = NoCall
    /\ \E u \in {v \in Urls : Len(v.query) > 1} :
          call' = [fn |-> "canonicalize_reordered", arg |-> <<u, Reordered(u)>>,
                   ret |-> [cu |-> <<canonicalize_url(u), canonicalize_url(Reordered(u))>>,
                            id |-> <<id_from_url(u), id_from_url(Reordered(u))>>]]
    /\ UNCHANGED main_vars

LibNext ==
    \/ Call_canonicalize_url
    \/ Call_id_from_url
    \/ Call_determine_status
    \/ Call_rank_item
    \/ Call_extract_bonus
    \/ Call_canonicalize_reordered

LibSpec == LibInit /\ [][LibNext]_vars

----------------------------------------------------------------------------
(* Properties                                                              *)

\* the identity key of a record: its canonical sourceUrl
KeyOf(it) == canonicalize_url(it.sourceUrl)

\* the positions of its whose record has the key cu
WithKey(its, cu) == {k \in 1..Len(its) : KeyOf(its[k]) = cu}

\* a run has ended and its catalog is in items
RunDone == pc = "done"

\* C1: after any run, no two records of the resulting catalog share the
\* same canonical sourceUrl, whatever the loaded catalog was
C1_NoDuplicateUrl ==
    RunDone => \A i, j \in 1..Len(items) :
                  KeyOf(items[i]) = KeyOf(items[j]) => i = j

\* C2: merging a fetched item x twice, as merge_items(old, [x, x]) and as two
\* successive merges of [x], leaves exactly one record with the key of x, and
\* the second merge adds nothing; old is the catalog a run merges into, x an
\* item the run has kept
MergesOnce(old, x) ==
    LET both   == merge_items(old, <<x, x>>, today, tod)
        first  == merge_items(old, <<x>>, today, tod)
        second == merge_items(first.merged, <<x>>, today, tod)
    IN  /\ Cardinality(WithKey(both.merged, KeyOf(x))) = 1
        /\ Cardinality(WithKey(second.merged, KeyOf(x))) = 1
        /\ second.added = <<>>

C2_MergeIdempotent ==
    pc = "harvest" => \A k \in 1..Len(all_new) : MergesOnce(items, all_new[k])

\* the one record of its that has the key cu has the bonus b and the
\* createdAt c
OneRecord(its, cu, b, c) ==
    /\ Cardinality(WithKey(its, cu)) = 1
    /\ \A k \in WithKey(its, cu) : its[k].bonusAmount = b /\ its[k].createdAt = c

\* A, without a bonus, is the record of its URL in the catalog and B, with
\* the bonus 50000, is fetched: the merge leaves one record, with the bonus
\* of B and the createdAt of A
MergeUpgradesStored ==
    \A a \in 1..Len(items), b \in 1..Len(all_new) :
        ( /\ KeyOf(items[a]) = KeyOf(all_new[b])
          /\ WithKey(items, KeyOf(items[a])) = {a}
          /\ items[a].bonusAmount = 0
          /\ all_new[b].bonusAmount = 50000 )
        => OneRecord(items', KeyOf(items[a]), 50000, items[a].createdAt)

\* A and then B are fetched in the same run and the catalog has no record
\* of their URL
MergeUpgradesNew ==
    \A a, b \in 1..Len(all_new) :
        ( /\ a < b
          /\ KeyOf(all_new[a]) = KeyOf(all_new[b])
          /\ WithKey(items, KeyOf(all_new[a])) = {}
          /\ \A k \in WithKey(all_new, KeyOf(all_new[a])) : k >= a
          /\ all_new[a].bonusAmount = 0
          /\ all_new[b].bonusAmount = 50000 )
        => OneRecord(items', KeyOf(all_new[a]), 50000, all_new[a].createdAt)

\* C3: A (bonusAmount 0) and the later B (bonusAmount 50000) have the same
\* canonical URL: after the merge one record exists for that URL, its
\* bonusAmount is 50000 and its createdAt is that of A, both when A is in
\* the catalog and when A and B arrive in the same list of new items
C3_MergeKeepsBonusAndCreatedAt ==
    [][Merge => MergeUpgradesStored /\ MergeUpgradesNew]_vars

\* the merge has upgraded the stored A: the record of UrlA has the bonus of
\* the fetched B and the createdAt A was stored with
C3_Witness_Stored ==
    /\ pc = "merged"
    /\ \E b \in 1..Len(all_new) :
          all_new[b].bonusAmount = 50000 /\ all_new[b].createdAt > Stamp(Day0 - 5, 1)
                                         /\ KeyOf(all_new[b]) = UrlA
    /\ OneRecord(items, UrlA, 50000, Stamp(Day0 - 5, 1))

\* A and then B arrive in the same list of new items, B fetched later than A:
\* the record of UrlA has the bonus of B and the createdAt of A
C3_Witness_New ==
    /\ pc = "merged"
    /\ feed.items = <<>>
    /\ \E a, b \in 1..Len(all_new) :
          /\ a < b
          /\ KeyOf(all_new[a]) = UrlA /\ KeyOf(all_new[b]) = UrlA
          /\ all_new[a].bonusAmount = 0 /\ all_new[b].bonusAmount = 50000
          /\ all_new[a].createdAt < all_new[b].createdAt
          /\ OneRecord(items, UrlA, 50000, all_new[a].createdAt)

\* the createdAt values the records of key cu have in its
CreatedAts(its, cu) == {its[k].createdAt : k \in WithKey(its, cu)} \ {0}

\* C4 as stated: across any sequence of runs the createdAt of an id equals
\* the earliest value ever seen for it, pruning followed by re-harvest
\* included; hist holds, per canonical URL, the earliest createdAt of the
\* catalogs so far
C4_EarliestEverSeen ==
    \A k \in 1..Len(feed.items) :
        WithKey(feed.items, KeyOf(feed.items[k])) = {k}
        => \A e \in hist : e.k = KeyOf(feed.items[k]) => feed.items[k].createdAt = e.c

\* C4, amended: a run that saves the catalog leaves the createdAt of every
\* record it keeps as it was loaded, whatever the rebuild, the merge with a
\* re-fetched item and the enrichment did to the record; a record of a URL
\* the loaded catalog did not hold is created with the createdAt of its fetch
C4_CreatedAtKeptWhileStored ==
    [][feed' # feed =>
        \A k \in 1..Len(feed'.items) :
          CreatedAts(feed.items, KeyOf(feed'.items[k])) # {}
          => feed'.items[k].createdAt \in CreatedAts(feed.items, KeyOf(feed'.items[k]))]_vars

\* a second run has merged a re-fetched item, with its bonus, into the
\* stored record of UrlA, and saved: createdAt is as loaded at the first run
C4_Witness ==
    /\ RunDone /\ runs = 2 /\ today > Day0
    /\ feed.updatedAt = Stamp(today, tod)
    /\ \E b \in 1..Len(all_new) : KeyOf(all_new[b]) = UrlA /\ all_new[b].createdAt >= Stamp(today, 0)
    /\ OneRecord(feed.items, UrlA, 50000, Stamp(Day0 - 5, 1))

\* the title validator accepts the title of it
ValidTitle(it) == ~it.invalid /\ normalize_title(it.title) # <<>>

\* C5: every item of the catalog a run produces has a title the validator
\* accepts: the items with an invalid title are dropped from the rebuilt
\* catalog, from the items kept at the harvest and by the final filter
C5_ValidTitles ==
    /\ pc = "harvest" => /\ \A k \in 1..Len(items) : ValidTitle(items[k])
                         /\ \A k \in 1..Len(all_new) : ValidTitle(all_new[k])
    /\ RunDone => \A k \in 1..Len(items) : ValidTitle(items[k])

\* the stored record of UrlB, whose title is a bare notice, did not survive
\* a run that saved the catalog, and the harvest of the run dropped a
\* fetched item for its title
C5_Witness ==
    /\ RunDone /\ feed.updatedAt = Stamp(today, tod) /\ feed.items = items
    /\ \E e \in hist : e.k = UrlB /\ e.c = Stamp(Day0 - 5, 1)
    /\ WithKey(items, UrlB) = {}
    /\ \E e \in stats : e.bad_title > 0
    /\ items # <<>>

\* C6: in every catalog a run produces, the category of each item holds
\* only values of the vocabulary of four, even when the loaded catalog or
\* the fixed category of a source carried other values
C6_CategoryInVocabulary ==
    RunDone => \A k \in 1..Len(items) : items[k].category \subseteq VOCAB

\* the stored record of categories {"sports", "startup"} is in the catalog
\* with {"startup"}, next to an item fetched in this run from the source
\* whose fixed category is "general"
C6_Witness ==
    /\ RunDone
    /\ \E k \in 1..Len(items) :
          /\ items[k].createdAt = Stamp(Day0 - 5, 1)
          /\ items[k].title = TitlePlain
          /\ items[k].category = {"startup"}
    /\ \E k \in 1..Len(items) :
          /\ items[k].sourceName = "Hub"
          /\ SrcMap("Hub").category_fixed \notin VOCAB
          /\ items[k].createdAt >= Stamp(today, 0)
          /\ items[k].category # {}

\* the items ensure_item_schema has just returned: the rebuilt catalog and
\* the items kept from the fetches
Normalized == IF pc = "harvest"
              THEN Range(items) \cup Range(all_new)
              ELSE {}

Priority(c) ==
    CASE c = "coding" -> 1 [] c = "modeling" -> 2 [] c = "ai_data" -> 3
      [] c = "startup" -> 4 [] OTHER -> 5

Retention(it) == IF it.isWhitelist THEN 30 ELSE 7

\* C8: after every run the catalog has no record that is ended and whose
\* deadline is more than the retention window before now: 7 days, 30 for the
\* whitelist items
C8_NoStaleEnded ==
    RunDone => \A k \in 1..Len(items) :
                  ~ ( /\ items[k].status = "ended"
                      /\ Parses(items[k].deadline)
                      /\ today - items[k].deadline > Retention(items[k]) )

\* of two stored records ended ten days ago, the whitelist one is in the
\* catalog of the run and the ordinary one, of UrlC, is not
C8_Witness ==
    /\ RunDone
    /\ \E k \in 1..Len(items) :
          /\ items[k].status = "ended" /\ items[k].isWhitelist
          /\ items[k].deadline = today - 10
    /\ \E e \in hist : e.k = UrlC /\ e.c = Stamp(Day0 - 40, 1)
    /\ WithKey(items, UrlC) = {}

\* a comes before b in the order of C9
InOrder(a, b) ==
    \/ a.qualityScore > b.qualityScore
    \/ /\ a.qualityScore = b.qualityScore
       /\ \/ Parses(a.deadline) /\ ~Parses(b.deadline)
          \/ Parses(a.deadline) /\ Parses(b.deadline) /\ a.deadline < b.deadline
          \/ /\ (Parses(a.deadline) /\ Parses(b.deadline) /\ a.deadline = b.deadline)
                \/ (~Parses(a.deadline) /\ ~Parses(b.deadline))
             /\ a.createdAt >= b.createdAt

\* C9: in the list a run produces, an item placed before another has a
\* qualityScore not lower; at equal scores a deadline not later, the items
\* without a deadline that parses last; at equal score and deadline a
\* createdAt not lower
C9_Sorted ==
    RunDone => \A i, j \in 1..Len(items) : i < j => InOrder(items[i], items[j])

\* the statistics entry of source k, or one of zeros
StatOf(k) ==
    LET es == {e \in stats : e.name = Sources[k].name}
    IN  IF es = {} THEN [kept |-> 0, error |-> FALSE] ELSE CHOOSE e \in es : TRUE

Fetchable(k) == Sources[k].enabled /\ Sources[k].type \in FETCHERS

\* C10: a fetcher that raises does not abort the run: the failure is in the
\* statistics entry of its source, the items kept from the other sources
\* are all in all_new and reach merge_items, every source is processed, and
\* the run goes on to the final filter, the sort and the save
C10_FailureDoesNotAbort ==
    /\ pc \in {"harvest", "merged", "done"} =>
          /\ \A k \in 1..Len(Sources) :
                (k < si /\ Fetchable(k)) => \E e \in stats : e.name = Sources[k].name
          /\ \A e \in stats : e.error => e.kept = 0 /\ e.fetched = 0
          /\ Len(all_new) = SumSeq([k \in 1..Len(Sources) |-> StatOf(k).kept])
    /\ pc \in {"merged", "done"} => si > Len(Sources)
    /\ pc = "merged" => \A k \in 1..Len(all_new) : WithKey(items, KeyOf(all_new[k])) # {}
    /\ (RunDone /\ ~args.dry_run /\ ~(args.ci /\ items = <<>>)) =>
          /\ exit_code = 0
          /\ feed = [items |-> items, updatedAt |-> Stamp(today, tod)]

\* the fetch of Codeforces raised, between two sources that each gave an
\* item: the run has saved a catalog that holds both
C10_Witness ==
    /\ RunDone /\ exit_code = 0
    /\ \E e \in stats : e.name = "Codeforces" /\ e.error
    /\ \E e \in stats : e.name = "CUMCM" /\ e.kept = 1
    /\ \E e \in stats : e.name = "Hub" /\ e.kept = 1
    /\ feed = [items |-> items, updatedAt |-> Stamp(today, tod)]
    /\ \E i, j \in 1..Len(items) :
          /\ items[i].sourceName = "CUMCM" /\ items[i].createdAt >= Stamp(today, 0)
          /\ items[j].sourceName = "Hub" /\ items[j].createdAt >= Stamp(today, 0)

\* C11: with --dry-run the whole pipeline runs (every source is processed,
\* the merge, the final filter, the enrichment and the sort are done), the
\* persisted catalog is left as it was before the run, and the process
\* exits with status 0
C11_DryRunSavesNothing ==
    /\ [](RunDone /\ args.dry_run =>
            /\ exit_code = 0
            /\ si > Len(Sources)
            /\ final_filter(items, today, tod) = items
            /\ sort_items(items) = items)
    /\ [][(pc # "idle" /\ args.dry_run) => feed' = feed]_vars

\* a --dry-run run has ended with status 0: its catalog holds a fetched item
\* and differs from the persisted one, which is as it was loaded
C11_Witness ==
    /\ RunDone /\ args.dry_run /\ exit_code = 0 /\ runs = 1
    /\ all_new # <<>>
    /\ \E k \in 1..Len(items) : items[k].createdAt >= Stamp(today, 0)
    /\ items # feed.items
    /\ feed.items \in InitialFeeds /\ feed.items # <<>>
    /\ feed.updatedAt = Stamp(Day0 - 1, 1)

\* the floor of the --ci "sanity check" on the number of items
MinItems == 5

\* C12: with --ci the process exits with a non-zero status when the final
\* catalog has no item, when updatedAt is empty or when it has fewer than 5
\* items; without --ci these only give warnings and the catalog is saved
C12_CiStrictChecks ==
    /\ (RunDone /\ args.ci /\ ~args.dry_run
          /\ (Len(items) = 0 \/ Len(items) < MinItems \/ Stamp(today, tod) = 0))
       => exit_code # 0
    /\ (RunDone /\ ~args.ci /\ ~args.dry_run)
       => /\ exit_code = 0
          /\ feed = [items |-> items, updatedAt |-> Stamp(today, tod)]


----------------------------------------------------------------------------
\* C13: canonicalize_url is idempotent: canonicalizing a canonical URL gives
\* it back, for every URL (the empty URL, several trailing slashes, tracking
\* parameters and blank-valued parameters included).
C13_CanonicalizeIdempotent ==
    call.fn = "canonicalize_url" => canonicalize_url(call.ret) = call.ret

\* C14: two URLs of one page that differ only in the scheme, in a trailing
\* slash or in tracking parameters have the same id_from_url (so that a
\* re-fetch under the other address updates the stored record).
C14_SameIdForVariants ==
    call.fn = "id_from_url" => call.ret[1] = call.ret[2]

\* the same, for the URLs whose path holds no ";"
C14_SameIdWithoutParams ==
    (call.fn = "id_from_url" /\ \A i \in 1..Len(call.arg[1].path) : call.arg[1].path[i] # ";")
        => call.ret[1] = call.ret[2]

----------------------------------------------------------------------------
\* a malformed date string read as an absent one
AsAbsent(d) == IF d = BadDate THEN 0 ELSE d

\* rule 1 and rule 2 of the status resolver, on days
EndedRule(d) == Parses(d) /\ d < today
UpcomingRule(s) == Parses(s) /\ s > today

\* C15: determine_status always returns one of upcoming, open, ongoing,
\* ended, unknown, the first rule that matches in the order ended, upcoming,
\* ongoing, open, unknown: a deadline of yesterday gives ended even with a
\* start date in the future, a deadline of today never gives ended, a future
\* start date without a deadline gives upcoming, no parseable date gives
\* unknown, and a malformed date counts as an absent one.
C15_StatusRules ==
    call.fn = "determine_status" =>
        LET s == call.arg.start_date
            d == call.arg.deadline
            r == call.ret
        IN  /\ r \in {"upcoming", "open", "ongoing", "ended", "unknown"}
            /\ r = "ended" <=> EndedRule(d)
            /\ r = "upcoming" <=> (~EndedRule(d) /\ UpcomingRule(s))
            /\ r = "ongoing" =>
                    Parses(s) /\ Parses(d) /\ s <= today /\ today <= d
            /\ r = "open" => Parses(d) /\ today <= d
            /\ (Parses(s) /\ Parses(d) /\ s <= today /\ today < d) => r = "ongoing"
            /\ (~Parses(s) /\ Parses(d) /\ today < d) => r = "open"
            /\ d = today - 1 => r = "ended"
            /\ d = today => r # "ended"
            /\ (s > today /\ ~Parses(d)) => r = "upcoming"
            /\ (~Parses(s) /\ ~Parses(d)) => r = "unknown"
            /\ r = determine_status(AsAbsent(s), AsAbsent(d), today, tod)

\* a deadline of yesterday and a start date of tomorrow: ended
C15_Witness ==
    /\ call.fn = "determine_status"
    /\ call.arg.deadline = today - 1
    /\ call.arg.start_date = today + 1
    /\ call.ret = "ended"

\* C16: the deadline day is inclusive for the ongoing rule: with a start date
\* of today or earlier and a deadline of today, determine_status returns
\* ongoing at any time of the day.
C16_DeadlineDayOngoing ==
    (/\ call.fn = "determine_status"
     /\ Parses(call.arg.start_date) /\ call.arg.start_date <= today
     /\ call.arg.deadline = today)
        => call.ret = "ongoing"

\* the same at 00:00:00 exactly
C16_OngoingAtMidnight ==
    (/\ call.fn = "determine_status" /\ tod = 0
     /\ Parses(call.arg.start_date) /\ call.arg.start_date <= today
     /\ call.arg.deadline = today)
        => call.ret = "ongoing"

----------------------------------------------------------------------------
\* C17: of two items that are identical except for bonusAmount, the one with
\* the larger bonusAmount never gets the lower qualityScore from rank_item.
C17_RankMonotoneInBonus ==
    (/\ call.fn = "rank_item"
     /\ With(call.arg.a, [bonusAmount |-> call.arg.b.bonusAmount]) = call.arg.b
     /\ call.arg.a.bonusAmount <= call.arg.b.bonusAmount)
        => call.ret.a.qualityScore <= call.ret.b.qualityScore

\* the larger bonus earns the top tier, the smaller one nothing
C17_Witness ==
    /\ call.fn = "rank_item"
    /\ With(call.arg.a, [bonusAmount |-> call.arg.b.bonusAmount]) = call.arg.b
    /\ call.arg.a.bonusAmount = 4999 /\ call.arg.b.bonusAmount = 100000
    /\ call.ret.b.qualityScore = call.ret.a.qualityScore + 80

C18_DeadlineToday ==
    (/\ call.fn = "rank_item"
     /\ With(call.arg.a, [deadline |-> call.arg.b.deadline]) = call.arg.b
     /\ today <= call.arg.a.deadline /\ call.arg.a.deadline <= call.arg.b.deadline)
        => call.ret.a.qualityScore >= call.ret.b.qualityScore

----------------------------------------------------------------------------
\* C19: the extracted amount is 100000 for "总奖金10万元", 5000 for
\* "一等奖：5000元", 7200 for "Prize Pool $1000" and 0 (text "-") for a text
\* with no reward phrase: a figure that stands in a pool context only is
\* still the extracted amount.
C19_ExtractedAmounts ==
    call.fn = "extract_bonus" =>
        LET a == call.arg
        IN  /\ (a.kw = "poolkw" /\ a.n = 10 /\ a.u = "wanyuan")
                => call.ret.amount = 100000
            /\ (a.kw = "maxkw" /\ a.n = 5000 /\ a.u = "yuan")
                => call.ret.amount = 5000
            /\ (a.kw = "prizepool" /\ a.n = 1000 /\ a.u = "usd_prefix")
                => call.ret.amount = 7200
            /\ a.n = 0 => call.ret.amount = 0

\* what does hold: a first prize of 5000元 is extracted, and a text without
\* an amount gives 0
C19_PrizeAndNone ==
    call.fn = "extract_bonus" =>
        LET a == call.arg
        IN  /\ (a.kw = "maxkw" /\ a.n = 5000 /\ a.u = "yuan")
                => call.ret.amount = 5000
            /\ a.n = 0 => call.ret.amount = 0 /\ call.ret.pool = 0

\* and the figure of a pool context goes to the pool amount alone
C19_PoolOnly ==
    (call.fn = "extract_bonus" /\ call.arg.kw \in {"poolkw", "prizepool"}
        /\ call.arg.n > 0)
        => call.ret.amount = 0 /\ call.ret.pool > 0

----------------------------------------------------------------------------
\* main() once more: the stored catalog rebuilt, the fetched items merged
\* in, the final filter, the enrichment with the responses resps, the sort
Refiltered(catalog, new_items, day, t) ==
    final_filter(merge_items(rebuild_existing(catalog, day, t), new_items, day, t).merged,
                 day, t)

Reruns(catalog, new_items, day, t) ==
    {sort_items(enrich_items_with_details(f, resps, day, t)) :
        f \in {Refiltered(catalog, new_items, day, t)},
        resps \in [Requested(Refiltered(catalog, new_items, day, t)) -> DetailResponses]}

\* C20: the pipeline run a second time on the catalog a run has saved, with
\* the same fetched items at the same time, gives that catalog again, every
\* field of every item and the order included.
C20_PipelineIdempotent ==
    (RunDone /\ runs = MaxRuns /\ exit_code = 0 /\ feed.items = items)
        => items \in Reruns(items, all_new, today, tod)

----------------------------------------------------------------------------
\* the fields outside merge_items' update list
FrameKept(old, res) ==
    /\ res.id = old.id /\ res.sourceUrl = old.sourceUrl
    /\ res.sourceName = old.sourceName /\ res.summary = old.summary
    /\ res.createdAt = old.createdAt /\ res.bonusPoolAmount = old.bonusPoolAmount

\* the fields of the update list whose empty or zero value is not taken
EmptyNotTaken(old, new, res) ==
    /\ new.bonusAmount = 0 => res.bonusAmount = old.bonusAmount
    /\ new.deadline = 0 => res.deadline = old.deadline
    /\ new.startDate = 0 => res.startDate = old.startDate
    /\ new.category = {} => res.category = old.category
    /\ new.tags = {} => res.tags = old.tags
    /\ new.qualityScore = 0 => res.qualityScore = old.qualityScore

\* the fields whose default value says that nothing was observed:
\* bonusText "-", status "unknown", level "Unknown"
DefaultNotTaken(old, new, res) ==
    /\ (new.bonusAmount = 0 /\ new.bonusText = 0) => res.bonusText = old.bonusText
    /\ new.status \in {"", "unknown"} => res.status = old.status
    /\ new.level \in {"", "Unknown"} => res.level = old.level

\* the stored record old is the one record of its URL, the fetched new is
\* the one new item of that URL: the merge turns old into items'[a]
MergedPairs(P(_, _, _)) ==
    \A a \in 1..Len(items), b \in 1..Len(all_new) :
        ( /\ KeyOf(items[a]) = KeyOf(all_new[b])
          /\ WithKey(items, KeyOf(items[a])) = {a}
          /\ WithKey(all_new, KeyOf(items[a])) = {b} )
        => P(items[a], all_new[b], items'[a])

\* C21: when merge_items updates a stored record from a re-fetched item of
\* the same canonical URL, every field for which the new item observed
\* nothing (empty, zero or default) keeps the stored value, and the fields
\* outside the update list are unchanged.
C21_MergeKeepsUnobserved ==
    [][Merge => MergedPairs(LAMBDA old, new, res :
                    /\ FrameKept(old, res)
                    /\ EmptyNotTaken(old, new, res)
                    /\ DefaultNotTaken(old, new, res))]_vars

\* what does hold: the frame, and the empty and zero values
C21_EmptyAndFrame ==
    [][Merge => MergedPairs(LAMBDA old, new, res :
                    FrameKept(old, res) /\ EmptyNotTaken(old, new, res))]_vars

----------------------------------------------------------------------------
\* the run has saved its catalog
Saved == RunDone /\ exit_code = 0 /\ ~args.dry_run /\ feed.items = items

\* C22: in the catalog a run has produced, the status of every item is what
\* determine_status gives for the item's own startDate and deadline at the
\* time of the run (at one of the instants the run has read the clock).
C22_StatusMatchesDates ==
    Saved => \A k \in 1..Len(items) : \E t \in 0..tod :
                items[k].status =
                    determine_status(items[k].startDate, items[k].deadline, today, t)

\* what does hold: the rebuild pass before the merge leaves every status in
\* line with the dates
C22_RebuiltStatusMatchesDates ==
    (pc = "harvest" /\ si = 1 /\ all_new = <<>>) =>
        \A k \in 1..Len(items) : \E t \in 0..tod :
            items[k].status =
                determine_status(items[k].startDate, items[k].deadline, today, t)

----------------------------------------------------------------------------
\* the ranking outputs of it are those rank_item computes from its fields
RankedAt(it, day, t) ==
    /\ it.qualityScore = rank_item(it, day, t).qualityScore
    /\ it.isWhitelist = rank_item(it, day, t).isWhitelist
    /\ it.level = rank_item(it, day, t).level

\* C23: in the catalog a run has produced, the qualityScore, isWhitelist and
\* level of every item are what rank_item returns for the item's final
\* fields in that run, items changed by the merge or by the enrichment
\* included.
C23_RankRecomputed ==
    Saved => \A k \in 1..Len(items) : \E t \in 0..tod : RankedAt(items[k], today, t)

\* what does hold: the items the run has added to the catalog, and the items
\* of the rebuild pass, carry the rank of their fields
C23_NewAndRebuiltRanked ==
    /\ (pc = "harvest" /\ si = 1 /\ all_new = <<>>) =>
            \A k \in 1..Len(items) : \E t \in 0..tod : RankedAt(items[k], today, t)
    /\ pc = "harvest" =>
            \A k \in 1..Len(all_new) : \E t \in 0..tod : RankedAt(all_new[k], today, t)

----------------------------------------------------------------------------
\* C24: two URLs that differ only in the order of their query parameters
\* have the same canonical URL and the same id.
C24_QueryOrderNormalized ==
    call.fn = "canonicalize_reordered" =>
        /\ call.ret.cu[1] = call.ret.cu[2]
        /\ call.ret.id[1] = call.ret.id[2]

\* what does hold: the canonical URL keeps the parameters in the order they
\* were written in
C24_QueryOrderKept ==
    call.fn = "canonicalize_reordered" =>
        call.ret.cu[2].query = Reversed(call.ret.cu[1].query)

\* the catalog was empty before the first run: no record is older than the
\* first run
FromEmpty == \A e \in hist : e.c >= Stamp(Day0, 0)

\* C25: a harvested candidate becomes a new record only if it has a valid
\* title and at least one recognized category: the candidates kept from the
\* sources and the records the merge adds all have both; and in a catalog
\* that was empty before the first run, every saved item has a category
C25_NewRecordsClassified ==
    /\ \A k \in 1..Len(all_new) :
          /\ ~all_new[k].invalid /\ all_new[k].title # <<>>
          /\ all_new[k].category \cap VOCAB # {}
    /\ \A k \in 1..Len(added) :
          /\ ~added[k].invalid /\ added[k].title # <<>>
          /\ added[k].category \cap VOCAB # {}
    /\ FromEmpty => \A k \in 1..Len(feed.items) : feed.items[k].category # {}

\* a second run on a catalog that was empty before the first: a candidate
\* was dropped for its category, another became a record, and the records
\* of the first run were rebuilt and saved again
C25_Witness ==
    /\ pc = "done" /\ runs = 2 /\ FromEmpty
    /\ \E e \in stats : e.category_mismatch > 0
    /\ added # <<>>
    /\ Len(feed.items) > Len(added)
    /\ feed.items = items

\* the item of request r as the run left it
After(r) == {k \in 1..Len(items) : /\ items[k].id = r.item.id
                                    /\ items[k].createdAt = r.item.createdAt
                                    /\ items[k].sourceName = r.item.sourceName}

\* C26: in one run enrich_items_with_details sends at most detail_limit
\* requests for each source, each for an item that has no bonusAmount, is not
\* ended and whose source has detail settings; an item whose request fails is
\* left as it was, the run goes on to its end, and no requested item ends
\* with a lower bonusAmount
C26_EnrichmentBounded ==
    /\ \A s \in SourceNames :
          Cardinality({r \in detail_reqs : r.item.sourceName = s})
              <= SrcMap(s).detail_limit
    /\ \A r \in detail_reqs :
          /\ r.item.bonusAmount = 0
          /\ r.item.status # "ended"
          /\ r.item.sourceName \in SourceNames
          /\ SrcMap(r.item.sourceName).detail
          /\ ~r.ok => \E k \in 1..Len(items) : items[k] = r.item
          /\ After(r) # {}
          /\ \A k \in After(r) : items[k].bonusAmount >= r.item.bonusAmount
    /\ detail_reqs # {} => pc = "done" /\ exit_code = 0

\* a run with two requests: the one of CUMCM failed, the one of Legacy found
\* a prize; a second item of CUMCM without a prize was not requested
C26_Witness ==
    /\ pc = "done"
    /\ \E r1, r2 \in detail_reqs :
          /\ r1.item.sourceName = "CUMCM" /\ ~r1.ok
          /\ r2.item.sourceName = "Legacy" /\ r2.ok
          /\ \E k \in After(r2) : items[k].bonusAmount > 0
    /\ \E k \in 1..Len(items) :
          /\ items[k].sourceName = "CUMCM" /\ items[k].bonusAmount = 0
          /\ items[k].status # "ended"
          /\ \A r \in detail_reqs : r.item.id # items[k].id

\* the status tags of an item are those of its status
StatusTagsCurrent(it) ==
    /\ "tag_open" \in it.tags => it.status = "open"
    /\ "tag_ongoing" \in it.tags => it.status = "ongoing"

\* C27: after any sequence of runs, an item of the catalog has the tag of
\* "open" only if its status is open and the tag of "ongoing" only if its
\* status is ongoing
C27_StatusTagsCurrent ==
    \A k \in 1..Len(feed.items) : StatusTagsCurrent(feed.items[k])

\* what the code keeps: classify_item gives an item the tag of its status
\* when that is open or ongoing, so every item ensure_item_schema returns,
\* harvested or rebuilt, has it
C27_StatusTagAdded ==
    \A k \in 1..Len(all_new) :
        /\ all_new[k].status = "open" => "tag_open" \in all_new[k].tags
        /\ all_new[k].status = "ongoing" => "tag_ongoing" \in all_new[k].tags
=============================================================================
